---- MODULE Spec2Model ----
(***************************************************************************)
(* The state-synchronisation pipeline of the multi-agent dashboard: the    *)
(* change-aware FileWatcher (src/lib/watcher.ts) and the server-sent-event *)
(* broadcast route (src/app/api/events/route.ts) that fans its snapshots   *)
(* out to subscribers.                                                     *)
(***************************************************************************)
EXTENDS Integers, Sequences, FiniteSets, Bags, TLC

\* ------------------------------------------------------------------ bounds
\* File writes the observed agents make during a run.
MaxWrites == 1
\* readState calls started by the watcher's timers that may be in flight.
MaxInflight == 1
\* Heartbeat ticks, of all subscriptions together, counted in a run.
MaxHeartbeats == 2
\* 'update' events recorded in the publication history of a run.
MaxPublish == 2
\* Elapsed times tried: multiples of ElapsedStepMs up to MaxElapsedSteps steps.
ElapsedStepMs == 2500
MaxElapsedSteps == 140
\* Distinct timer / watcher handles alive at once.
MaxHandles == MaxInflight + 2

\* The connections (GET /api/events requests) of a run.
Subs == {"s1", "s2"}
\* The connection that drives the watcher where one is enough.
FirstSub == {"s1"}

AgentStatus == {"working", "completed", "idle"}

\* `null` for lastState and for a subscription without an initial read.
Null == [agents |-> <<>>, other |-> -1]

\* No call of a pure function has been made.
NoCalc == [op |-> "none"]

\* No periodic re-evaluation to pair the next one with.
NoReeval == [agents |-> <<>>, pub |-> FALSE, second |-> FALSE]

VARIABLES
  fs,             \* what adapter.readState() would assemble right now
  writes,         \* file writes so far
  started,        \* FileWatcher.started
  watcher,        \* FileWatcher.watcher: handle of the FSWatcher, 0 = null
  openWatchers,   \* FSWatcher instances that are open
  stopping,       \* a stop() call is suspended at `await this.watcher.close()`
  debounceTimer,  \* FileWatcher.debounceTimer: handle, 0 = null
  liveTimeouts,   \* setTimeout countdowns still pending
  reevalTimer,    \* FileWatcher.reevalTimer: handle, 0 = null
  liveIntervals,  \* setInterval timers still active
  lastState,      \* FileWatcher.lastState
  reads,          \* readState calls of the two timers in flight: which callback
                  \*   awaits it, what it will resolve to, and (history) the
                  \*   size of the burst of notifications that led to it
  listeners,      \* 'update' listeners registered on the watcher
  unhandled,      \* an emit('error') found no 'error' listener
  exited,         \* the unhandled rejection that followed ended the process
  pc,             \* per connection: position of ReadableStream.start
  initRead,       \* per connection: the snapshot its getInitialState is reading
  closed,         \* per connection: the `closed` flag
  cancelled,      \* per connection: the consumer cancelled the stream
  hbTimer,        \* per connection: heartbeatInterval is active
  recvN,          \* per connection: number of snapshots enqueued to the stream
  recvLast,       \* per connection: the snapshot enqueued last
  hbCount,        \* per connection: keep-alive lines enqueued
  hbTicks,        \* history: ticks of the connection's heartbeat timer
  pubCount,       \* history: number of 'update' events emitted
  lastPub,        \* history: the snapshot of the latest 'update' event
  pubSame,        \* history: the latest 'update' event came from the debounce
                  \*   callback and repeated the agents and statuses lastState had
  lastReeval,     \* history: the latest periodic re-evaluation, while nothing
                  \*   else has assigned lastState and no file has changed since
  regAt,          \* history: pubCount when the listener was registered
  endAt,          \* history: pubCount when cleanup ran, -1 before
  burst,          \* history: notifications of the burst in progress (2 = two or more)
  owed,           \* history: bursts begun minus debounce reads begun or dropped
  noopStart,      \* history: the latest start() call found the watcher started
  calc            \* the call of a pure function under study: its name, its
                  \*   arguments and what it returned

wvars == <<started, watcher, openWatchers, stopping, debounceTimer, liveTimeouts,
           reevalTimer, liveIntervals>>
svars == <<pc, initRead, closed, cancelled, hbTimer, recvN, recvLast, hbCount,
           regAt, endAt>>
gvars == <<burst, owed>>
hvars == <<pubCount, lastPub, pubSame>>
vars == <<fs, writes, wvars, lastState, reads, listeners, unhandled, exited, svars,
          hbTicks, hvars, lastReeval, gvars, noopStart, calc>>

\* Everything but calc.
pvars == <<fs, writes, wvars, lastState, reads, listeners, unhandled, exited, svars,
           hbTicks, hvars, lastReeval, gvars, noopStart>>

\* ----------------------------------------------------------- the file system
Agent(id, status) == [id |-> id, status |-> status]

\* The part of the agent list that comes from the registry (after the lead).
RegistryShapes == { <<>>, <<Agent("a", "idle")>>, <<Agent("lead", "idle")>> }

\* The main session transcript is appended to: its mtime is now.
TouchTranscript(f) ==
  [f EXCEPT !.agents[1].status = "working"]

\* What one file write can turn the assembled state into: the transcript
\* grows, a ticket / comms / stats file changes, or the registry is rewritten.
WriteResults(f) ==
  ({ TouchTranscript(f), [f EXCEPT !.other = 1 - f.other] }
    \cup { [f EXCEPT !.agents = <<f.agents[1]>> \o r] : r \in RegistryShapes }) \ {f}

ACTIVE_THRESHOLD_MS == 2 * 60 * 1000
DONE_THRESHOLD_MS == 5 * 60 * 1000

\* deriveActivity with the thresholds still counted as the earlier status.
deriveActivityInclusive(elapsed) ==
  IF elapsed <= ACTIVE_THRESHOLD_MS THEN "working"
  ELSE IF elapsed <= DONE_THRESHOLD_MS THEN "completed"
  ELSE "idle"

\* deriveActivity(lastModified), as a function of Date.now() - lastModified.
deriveActivity(elapsed) ==
  IF elapsed < ACTIVE_THRESHOLD_MS THEN "working"
  ELSE IF elapsed < DONE_THRESHOLD_MS THEN "completed"
  ELSE "idle"

\* The status that follows `status` as the elapsed time grows.
deriveActivityNext(status) ==
  IF status = "working" THEN "completed" ELSE "idle"

\* ------------------------------------------------------------ helpers
FreshHandle(used) ==
  CHOOSE h \in 1..MaxHandles : h \notin used /\ \A k \in 1..(h - 1) : k \in used

HasFresh(used) == \E h \in 1..MaxHandles : h \notin used

\* oldAgents.find(a => a.id === id): index of the first match, 0 if none.
FindAgent(agents, id) ==
  IF \E j \in DOMAIN agents : agents[j].id = id
    THEN CHOOSE j \in DOMAIN agents :
           /\ agents[j].id = id
           /\ \A k \in 1..(j - 1) : agents[k].id # id
    ELSE 0

hasStatusChanged(last, newState) ==
  IF last = Null THEN TRUE
  ELSE IF Len(last.agents) # Len(newState.agents) THEN TRUE
  ELSE \E i \in DOMAIN newState.agents :
         LET j == FindAgent(last.agents, newState.agents[i].id) IN
           \/ j = 0
           \/ last.agents[j].status # newState.agents[i].status

\* ------------------------------------------------------------ the route
\* send(data): whether the call enqueues data to the stream of connection s.
send(s) == ~(closed[s] \/ cancelled[s])

\* send / sendHeartbeat: the `closed` flag after a call (enqueue throws on a
\* cancelled stream, and the catch sets the flag).
closedAfterWrite(s) == closed[s] \/ cancelled[s]

\* emit('update') that runs the listener registered first and no other.
emitUpdateFirstListener(state) ==
  /\ pubCount < MaxPublish
  /\ recvN' = [s \in Subs |-> IF s \in listeners /\ s \in FirstSub /\ send(s)
                                THEN recvN[s] + 1 ELSE recvN[s]]
  /\ recvLast' = [s \in Subs |-> IF s \in listeners /\ s \in FirstSub /\ send(s)
                                   THEN state ELSE recvLast[s]]
  /\ closed' = [s \in Subs |-> IF s \in listeners THEN closedAfterWrite(s) ELSE closed[s]]
  /\ pubCount' = pubCount + 1
  /\ lastPub' = state

\* this.emit('update', state): every registered listener runs send(state).
emitUpdate(state) ==
  /\ pubCount < MaxPublish
  /\ recvN' = [s \in Subs |-> IF s \in listeners /\ send(s) THEN recvN[s] + 1 ELSE recvN[s]]
  /\ recvLast' = [s \in Subs |-> IF s \in listeners /\ send(s) THEN state ELSE recvLast[s]]
  /\ closed' = [s \in Subs |-> IF s \in listeners THEN closedAfterWrite(s) ELSE closed[s]]
  /\ pubCount' = pubCount + 1
  /\ lastPub' = state

noUpdate == UNCHANGED <<recvN, recvLast, closed, pubCount, lastPub>>

\* sendHeartbeat that stays silent once an update has reached the connection.
sendHeartbeatWhenQuiet(s) ==
  IF closed[s] \/ cancelled[s] \/ recvN[s] > 1 THEN hbCount[s] ELSE hbCount[s] + 1

\* sendHeartbeat(): the keep-alive lines of connection s after the call.
sendHeartbeat(s) ==
  IF closed[s] \/ cancelled[s] THEN hbCount[s] ELSE hbCount[s] + 1

\* ------------------------------------------------------------ the watcher
clearTimeout(live, h) == live \ {h}

\* clearInterval that leaves the timer running.
clearIntervalNoop(live, h) == live

clearInterval(live, h) == live \ {h}

\* scheduleUpdate without its clearTimeout: the earlier countdown keeps running.
scheduleUpdateNoCancel ==
  /\ HasFresh(liveTimeouts)
  /\ debounceTimer' = FreshHandle(liveTimeouts)
  /\ liveTimeouts' = liveTimeouts \cup {FreshHandle(liveTimeouts)}

\* FileWatcher.scheduleUpdate: cancel the pending countdown, start a fresh one.
scheduleUpdate ==
  LET cleared == IF debounceTimer # 0
                   THEN clearTimeout(liveTimeouts, debounceTimer)
                   ELSE liveTimeouts
      used == cleared
  IN /\ HasFresh(used)
     /\ debounceTimer' = FreshHandle(used)
     /\ liveTimeouts' = cleared \cup {FreshHandle(used)}

\* start without its `started` guard.
startUnguarded ==
  /\ noopStart' = started
  /\ HasFresh(openWatchers)
  /\ HasFresh(liveIntervals)
  /\ started' = TRUE
  /\ watcher' = FreshHandle(openWatchers)
  /\ openWatchers' = openWatchers \cup {FreshHandle(openWatchers)}
  /\ reevalTimer' = FreshHandle(liveIntervals)
  /\ liveIntervals' = liveIntervals \cup {FreshHandle(liveIntervals)}

\* FileWatcher.start: a no-op when already started; otherwise one chokidar
\* watcher and one periodic timer are created.
start ==
  IF started
    THEN /\ UNCHANGED <<started, watcher, openWatchers, reevalTimer, liveIntervals>>
         /\ noopStart' = TRUE
    ELSE /\ noopStart' = FALSE
         /\ HasFresh(openWatchers)
         /\ HasFresh(liveIntervals)
         /\ started' = TRUE
         /\ watcher' = FreshHandle(openWatchers)
         /\ openWatchers' = openWatchers \cup {FreshHandle(openWatchers)}
         /\ reevalTimer' = FreshHandle(liveIntervals)
         /\ liveIntervals' = liveIntervals \cup {FreshHandle(liveIntervals)}

\* The debounce callback with the comparison of reevaluate.
debouncePublishIfChanged(state) ==
  IF hasStatusChanged(lastState, state)
    THEN /\ lastState' = state
         /\ emitUpdate(state)
         /\ pubSame' = FALSE
    ELSE /\ UNCHANGED <<lastState, pubSame>>
         /\ noUpdate

\* reevaluate without the comparison: every periodic snapshot is published.
reevaluatePublishAlways(state) ==
  /\ lastState' = state
  /\ emitUpdate(state)
  /\ pubSame' = FALSE

\* The debounce callback after its readState resolved.
debouncePublish(state) ==
  /\ lastState' = state
  /\ emitUpdate(state)
  /\ pubSame' = ~hasStatusChanged(lastState, state)

\* FileWatcher.reevaluate after its readState resolved.
reevaluatePublish(state) ==
  IF hasStatusChanged(lastState, state)
    THEN /\ lastState' = state
         /\ emitUpdate(state)
         /\ pubSame' = FALSE
    ELSE /\ UNCHANGED <<lastState, pubSame>>
         /\ noUpdate

\* ------------------------------------------------------------ actions
\* An agent, or the orchestrator, writes a file and the assembled state
\* changes. chokidar reports the write, if the path is watched, after its
\* stabilisation window: see Notify.
FileWrite(nf) ==
  /\ writes < MaxWrites
  /\ nf \in WriteResults(fs)
  /\ fs' = nf
  /\ writes' = writes + 1
  /\ lastReeval' = NoReeval
  /\ UNCHANGED <<wvars, lastState, reads, listeners, unhandled, svars, hvars, gvars, hbTicks, noopStart, exited, calc>>

\* Wall-clock time crosses a threshold of deriveActivity for the main session.
TimePasses ==
  /\ fs.agents[1].status # "idle"
  /\ fs' = [fs EXCEPT !.agents[1].status = deriveActivityNext(@)]
  /\ UNCHANGED <<writes, wvars, lastState, reads, listeners, unhandled, svars,
                 hvars, lastReeval, gvars, hbTicks, noopStart, exited, calc>>

\* watcher.on('all', ...): chokidar reports a change of a watched path (a
\* write counted by FileWrite, or one that leaves the assembled state as it
\* is) and the listener runs scheduleUpdate.
Notify ==
  /\ openWatchers # {}
  /\ scheduleUpdate
  /\ burst' = IF burst = 0 THEN 1 ELSE 2
  /\ owed' = IF burst = 0 THEN owed + 1 ELSE owed
  /\ UNCHANGED <<fs, writes, started, watcher, openWatchers, stopping, reevalTimer,
                 liveIntervals, lastState, reads, listeners, unhandled, svars, hvars, lastReeval, hbTicks, noopStart, exited, calc>>

\* The countdown h elapses: the callback calls adapter.readState(), while
\* fewer than `limit` reads of the timers are in flight.
DebounceFireWithin(h, limit) ==
  /\ h \in liveTimeouts
  /\ BagCardinality(reads) < limit
  /\ liveTimeouts' = liveTimeouts \ {h}
  /\ reads' = reads (+) SetToBag({[kind |-> "debounce", snap |-> fs, after |-> burst]})
  /\ owed' = owed - 1
  /\ burst' = IF h = debounceTimer THEN 0 ELSE burst
  /\ UNCHANGED <<fs, writes, started, watcher, openWatchers, stopping,
                 debounceTimer, reevalTimer, liveIntervals, lastState, listeners,
                 unhandled, svars, hvars, lastReeval, hbTicks, noopStart, exited, calc>>

DebounceFire(h) == DebounceFireWithin(h, MaxInflight)

\* The periodic timer h ticks: reevaluate() calls adapter.readState(), while
\* fewer than `limit` reads of the timers are in flight.
PeriodicTickWithin(h, limit) ==
  /\ h \in liveIntervals
  /\ BagCardinality(reads) < limit
  /\ reads' = reads (+) SetToBag({[kind |-> "periodic", snap |-> fs, after |-> 0]})
  /\ UNCHANGED <<fs, writes, wvars, lastState, listeners, unhandled, svars,
                 hvars, lastReeval, gvars, hbTicks, noopStart, exited, calc>>

PeriodicTick(h) == PeriodicTickWithin(h, MaxInflight)

\* The readState of the debounce callback resolves.
DebounceDone(r) ==
  /\ BagIn(r, reads)
  /\ r.kind = "debounce"
  /\ reads' = reads (-) SetToBag({r})
  /\ debouncePublish(r.snap)
  /\ lastReeval' = NoReeval
  /\ UNCHANGED <<fs, writes, wvars, listeners, unhandled, pc, initRead,
                 cancelled, hbTimer, hbCount, regAt, endAt, gvars, hbTicks, noopStart, exited, calc>>

\* The readState of reevaluate resolves.
ReevaluateDone(r) ==
  /\ BagIn(r, reads)
  /\ r.kind = "periodic"
  /\ reads' = reads (-) SetToBag({r})
  /\ reevaluatePublish(r.snap)
  /\ lastReeval' = [agents |-> r.snap.agents,
                    pub |-> pubCount' # pubCount,
                    second |-> lastReeval # NoReeval /\ lastReeval.agents = r.snap.agents]
  /\ UNCHANGED <<fs, writes, wvars, listeners, unhandled, pc, initRead,
                 cancelled, hbTimer, hbCount, regAt, endAt, gvars, hbTicks, noopStart, exited, calc>>

\* A readState rejects: the debounce callback emits 'error' (nobody listens
\* for it), reevaluate swallows it.
ReadFail(r) ==
  /\ BagIn(r, reads)
  /\ reads' = reads (-) SetToBag({r})
  /\ unhandled' = (unhandled \/ r.kind = "debounce")
  /\ UNCHANGED <<fs, writes, wvars, lastState, listeners, svars, hvars, lastReeval, gvars, hbTicks, noopStart, exited, calc>>

\* A readState of the debounce callback rejects and the host has no handler
\* for unhandled rejections: emit('error') throws for want of a listener, the
\* promise of the callback rejects, and Node ends the process.
ReadFailFatal(r) ==
  /\ BagIn(r, reads)
  /\ r.kind = "debounce"
  /\ reads' = EmptyBag
  /\ unhandled' = TRUE
  /\ exited' = TRUE
  /\ liveTimeouts' = {}
  /\ liveIntervals' = {}
  /\ openWatchers' = {}
  /\ listeners' = {}
  /\ hbTimer' = [s \in Subs |-> FALSE]
  /\ burst' = 0
  /\ owed' = 0
  /\ UNCHANGED <<fs, writes, started, watcher, stopping, debounceTimer, reevalTimer,
                 lastState, pc, initRead, closed, cancelled, recvN, recvLast, hbCount,
                 regAt, endAt, hbTicks, hvars, lastReeval, noopStart, calc>>

\* watcher.start() called once more (by a further connection).
StartCall ==
  /\ start
  /\ UNCHANGED <<fs, writes, stopping, debounceTimer, liveTimeouts, lastState, reads,
                 listeners, unhandled, svars, hvars, lastReeval, gvars, hbTicks, exited, calc>>

\* FileWatcher.stop up to `await this.watcher.close()`. Nothing in the
\* repository calls stop; its callers are taken to await it, so that one call
\* is suspended at a time.
StopBegin ==
  /\ ~stopping
  /\ liveTimeouts' = IF debounceTimer # 0
                       THEN clearTimeout(liveTimeouts, debounceTimer)
                       ELSE liveTimeouts
  /\ liveIntervals' = IF reevalTimer # 0
                        THEN clearInterval(liveIntervals, reevalTimer)
                        ELSE liveIntervals
  /\ IF watcher # 0
       THEN /\ openWatchers' = openWatchers \ {watcher}
            /\ stopping' = TRUE
            /\ UNCHANGED started
       ELSE /\ started' = FALSE
            /\ UNCHANGED <<openWatchers, stopping>>
  /\ owed' = IF burst > 0 THEN owed - 1 ELSE owed
  /\ burst' = 0
  /\ UNCHANGED <<fs, writes, watcher, debounceTimer, reevalTimer, lastState, reads,
                 listeners, unhandled, svars, hvars, lastReeval, hbTicks, noopStart, exited, calc>>

\* FileWatcher.stop after close() resolved.
StopEnd ==
  /\ stopping
  /\ watcher' = 0
  /\ started' = FALSE
  /\ stopping' = FALSE
  /\ UNCHANGED <<fs, writes, openWatchers, debounceTimer, liveTimeouts,
                 reevalTimer, liveIntervals, lastState, reads, listeners, unhandled,
                 svars, hvars, lastReeval, gvars, hbTicks, noopStart, exited, calc>>

\* GET /api/events: watcher.start(), then getInitialState() calls readState.
Connect(s) ==
  /\ pc[s] = "new"
  /\ start
  /\ pc' = [pc EXCEPT ![s] = "reading"]
  /\ initRead' = [initRead EXCEPT ![s] = fs]
  /\ UNCHANGED <<fs, writes, stopping, debounceTimer, liveTimeouts, lastState,
                 reads, listeners, unhandled, closed, cancelled, hbTimer, recvN, recvLast, hbCount,
                 regAt, endAt, hvars, lastReeval, gvars, hbTicks, exited, calc>>

\* getInitialState resolves: lastState is set, the snapshot is sent, the
\* 'update' listener and the heartbeat timer are installed.
InitialDone(s) ==
  /\ pc[s] = "reading"
  /\ lastState' = initRead[s]
  /\ recvN' = [recvN EXCEPT ![s] = IF send(s) THEN @ + 1 ELSE @]
  /\ recvLast' = [recvLast EXCEPT ![s] = IF send(s) THEN initRead[s] ELSE @]
  /\ closed' = [closed EXCEPT ![s] = closedAfterWrite(s)]
  /\ listeners' = listeners \cup {s}
  /\ hbTimer' = [hbTimer EXCEPT ![s] = TRUE]
  /\ pc' = [pc EXCEPT ![s] = "open"]
  /\ initRead' = [initRead EXCEPT ![s] = Null]
  /\ regAt' = [regAt EXCEPT ![s] = pubCount]
  /\ lastReeval' = NoReeval
  /\ UNCHANGED <<fs, writes, wvars, reads, unhandled, cancelled, hbCount,
                 endAt, hvars, gvars, hbTicks, noopStart, exited, calc>>

\* getInitialState rejects: ReadableStream.start rejects, the stream errors.
InitialFail(s) ==
  /\ pc[s] = "reading"
  /\ pc' = [pc EXCEPT ![s] = "errored"]
  /\ initRead' = [initRead EXCEPT ![s] = Null]
  /\ UNCHANGED <<fs, writes, wvars, lastState, reads, listeners, unhandled,
                 closed, cancelled, hbTimer, recvN, recvLast, hbCount, regAt, endAt,
                 hvars, lastReeval, gvars, hbTicks, noopStart, exited, calc>>

\* cleanup that removes every 'update' listener of the watcher.
cleanupAllListeners(s) ==
  /\ closed' = [closed EXCEPT ![s] = TRUE]
  /\ hbTimer' = [hbTimer EXCEPT ![s] = FALSE]
  /\ listeners' = {}

\* cleanup(): installed as stream.cancel once the connection is open.
cleanup(s) ==
  /\ closed' = [closed EXCEPT ![s] = TRUE]
  /\ hbTimer' = [hbTimer EXCEPT ![s] = FALSE]
  /\ listeners' = listeners \ {s}

\* The consumer goes away. Before stream.cancel is installed nothing runs.
Cancel(s) ==
  /\ pc[s] \in {"reading", "open"}
  /\ ~cancelled[s]
  /\ cancelled' = [cancelled EXCEPT ![s] = TRUE]
  /\ IF pc[s] = "open"
       THEN /\ cleanup(s)
            /\ endAt' = [endAt EXCEPT ![s] = pubCount]
       ELSE UNCHANGED <<closed, hbTimer, listeners, endAt>>
  /\ UNCHANGED <<fs, writes, wvars, lastState, reads, unhandled, pc, initRead,
                 recvN, recvLast, hbCount, regAt, hvars, lastReeval, gvars, hbTicks, noopStart, exited, calc>>

RECURSIVE TotalTicks(_)
TotalTicks(S) ==
  IF S = {} THEN 0
  ELSE LET s == CHOOSE x \in S : TRUE IN hbTicks[s] + TotalTicks(S \ {s})

\* heartbeatInterval ticks: sendHeartbeat().
HeartbeatTick(s) ==
  /\ hbTimer[s]
  /\ TotalTicks(Subs) < MaxHeartbeats
  /\ hbTicks' = [hbTicks EXCEPT ![s] = @ + 1]
  /\ hbCount' = [hbCount EXCEPT ![s] = sendHeartbeat(s)]
  /\ closed' = [closed EXCEPT ![s] = closedAfterWrite(s)]
  /\ UNCHANGED <<fs, writes, wvars, lastState, reads, listeners, unhandled, pc,
                 initRead, cancelled, hbTimer, recvN, recvLast, regAt, endAt, hvars, lastReeval, gvars, noopStart, exited, calc>>

\* ------------------------------------------------------------ specification
InitFs == [agents |-> <<Agent("lead", "working")>>, other |-> 0]

Init ==
  /\ fs = InitFs
  /\ writes = 0
  /\ started = FALSE
  /\ watcher = 0
  /\ openWatchers = {}
  /\ stopping = FALSE
  /\ debounceTimer = 0
  /\ liveTimeouts = {}
  /\ reevalTimer = 0
  /\ liveIntervals = {}
  /\ lastState = Null
  /\ reads = EmptyBag
  /\ listeners = {}
  /\ unhandled = FALSE
  /\ exited = FALSE
  /\ pc = [s \in Subs |-> "new"]
  /\ initRead = [s \in Subs |-> Null]
  /\ closed = [s \in Subs |-> FALSE]
  /\ cancelled = [s \in Subs |-> FALSE]
  /\ hbTimer = [s \in Subs |-> FALSE]
  /\ recvN = [s \in Subs |-> 0]
  /\ recvLast = [s \in Subs |-> Null]
  /\ hbCount = [s \in Subs |-> 0]
  /\ hbTicks = [s \in Subs |-> 0]
  /\ pubCount = 0
  /\ lastPub = Null
  /\ pubSame = FALSE
  /\ lastReeval = NoReeval
  /\ regAt = [s \in Subs |-> 0]
  /\ endAt = [s \in Subs |-> -1]
  /\ burst = 0
  /\ owed = 0
  /\ noopStart = FALSE
  /\ calc = NoCalc

\* The observed project: files are written, time passes.
Environment ==
  \/ \E nf \in WriteResults(fs) : FileWrite(nf)
  \/ TimePasses

\* Only a ticket / comms / stats file changes: the agents stay as they are.
QuietEnvironment ==
  FileWrite([fs EXCEPT !.other = 1 - fs.other])

\* The watcher's notification listener, its two timers and their callbacks.
WatcherSteps ==
  \/ Notify
  \/ \E h \in liveTimeouts : DebounceFire(h)
  \/ \E h \in liveIntervals : PeriodicTick(h)
  \/ \E r \in BagToSet(reads) : DebounceDone(r)
  \/ \E r \in BagToSet(reads) : ReevaluateDone(r)

\* The life cycle of the watcher: started and stopped any number of times,
\* with one connection, while files change without changing the agents.
Next ==
  \/ QuietEnvironment
  \/ WatcherSteps
  \/ \E r \in BagToSet(reads) : ReadFail(r)
  \/ StartCall
  \/ StopBegin
  \/ StopEnd
  \/ \E s \in FirstSub : Connect(s)
  \/ \E s \in FirstSub : InitialDone(s)

Spec == Init /\ [][Next]_vars

\* What the running watcher publishes: every kind of file write, the passing
\* of time, failing reads, one connection.
NextPublish ==
  \/ Environment
  \/ WatcherSteps
  \/ \E r \in BagToSet(reads) : ReadFail(r)
  \/ \E s \in FirstSub : Connect(s)
  \/ \E s \in FirstSub : InitialDone(s)

SpecPublish == Init /\ [][NextPublish]_vars

\* Failing reads: either outcome of a failure of the debounce path, while the
\* process lives.
NextErrors ==
  \/ /\ ~exited
     /\ \/ QuietEnvironment
        \/ WatcherSteps
        \/ \E r \in BagToSet(reads) : ReadFail(r)
        \/ \E s \in FirstSub : Connect(s)
        \/ \E s \in FirstSub : InitialDone(s)
  \/ \E r \in BagToSet(reads) : ~exited /\ ReadFailFatal(r)

SpecErrors == Init /\ [][NextErrors]_vars

\* Elapsed times since the last modification of a transcript: a grid, two
\* values before zero (a modification time in the future), and the
\* neighbours of the two thresholds.
ElapsedSamples ==
  { k * ElapsedStepMs : k \in -2..MaxElapsedSteps }
    \cup { ACTIVE_THRESHOLD_MS - 1, ACTIVE_THRESHOLD_MS, ACTIVE_THRESHOLD_MS + 1,
           DONE_THRESHOLD_MS - 1, DONE_THRESHOLD_MS, DONE_THRESHOLD_MS + 1 }

DeriveCall(t) ==
  /\ calc' = [op |-> "deriveActivity", elapsed |-> t, out |-> deriveActivity(t)]
  /\ UNCHANGED pvars

NextDerive == \E t \in ElapsedSamples : DeriveCall(t)

SpecDerive == Init /\ [][NextDerive]_vars

\* Connections are named in the order in which their requests arrive.
ArrivesNext(s) == s \in FirstSub \/ \A u \in FirstSub : pc[u] # "new"

\* The broadcast route with every connection, over a running watcher. The
\* agents stay as they are, so what is published comes from the debounce path.
NextBroadcast ==
  \/ QuietEnvironment
  \/ Notify
  \/ \E h \in liveTimeouts : DebounceFire(h)
  \/ \E r \in BagToSet(reads) : DebounceDone(r)
  \/ \E s \in Subs : ArrivesNext(s) /\ Connect(s)
  \/ \E s \in Subs : InitialDone(s)
  \/ \E s \in Subs : InitialFail(s)
  \/ \E s \in Subs : Cancel(s)
  \/ \E s \in Subs : HeartbeatTick(s)

SpecBroadcast == Init /\ [][NextBroadcast]_vars

\* A quiet project: no file is written and none is reported, time passes,
\* subscribers connect and stay, the periodic timer keeps ticking and every
\* read succeeds.
NextLive ==
  \/ TimePasses
  \/ \E h \in liveIntervals : PeriodicTick(h)
  \/ \E r \in BagToSet(reads) : ReevaluateDone(r)
  \/ \E s \in Subs : Connect(s)
  \/ \E s \in Subs : InitialDone(s)

SpecLive ==
  /\ Init
  /\ [][NextLive]_vars
  /\ WF_vars(\E h \in liveIntervals : PeriodicTick(h))
  /\ WF_vars(\E r \in BagToSet(reads) : ReevaluateDone(r))
  /\ WF_vars(\E s \in Subs : InitialDone(s))

\* ------------------------------------------------------------ debouncing
\* C1: a burst of change notifications, each arriving before the countdown of
\* the one before has elapsed, leads to exactly one readState, begun when the
\* countdown of the last notification elapses: at most one countdown is
\* pending, it is the one the latest notification started, one is pending
\* exactly while a burst is in progress, and every burst begun has had its one
\* read begun (or was dropped by stop) unless it is still in progress.
C1_DebounceCoalescesBurst ==
  /\ Cardinality(liveTimeouts) <= 1
  /\ liveTimeouts \subseteq {debounceTimer}
  /\ (burst > 0) <=> (liveTimeouts # {})
  /\ owed = IF burst > 0 THEN 1 ELSE 0

\* A burst of two or more notifications has ended and its read is in flight.
C1_Witness ==
  /\ burst = 0
  /\ \E r \in BagToSet(reads) : r.kind = "debounce" /\ r.after = 2

\* ------------------------------------------------------------ diff suppression
\* Some agent record of newAgents has no record with its id and its status in
\* oldAgents, or the two lists differ in length.
StatusesDiffer(oldAgents, newAgents) ==
  \/ Len(oldAgents) # Len(newAgents)
  \/ \E i \in DOMAIN newAgents : \A j \in DOMAIN oldAgents : oldAgents[j] # newAgents[i]

\* Two records of the list carry one id and different statuses.
ConflictingDuplicate(agents) ==
  \E i, j \in DOMAIN agents : agents[i].id = agents[j].id /\ agents[i].status # agents[j].status

\* C2: a periodic re-evaluation publishes its snapshot if and only if nothing
\* was held before, or the agent count differs from the snapshot held, or some
\* agent's status differs from that agent's status there; when it does not
\* publish, lastState stays and no subscriber is sent anything.
C2_PeriodicPublishesIffStatusDiffers ==
  [][\A r \in BagToSet(reads) :
       ReevaluateDone(r) =>
         /\ (pubCount' # pubCount) <=>
              (lastState = Null \/ StatusesDiffer(lastState.agents, r.snap.agents))
         /\ (pubCount' = pubCount) => (lastState' = lastState /\ recvN' = recvN)]_vars

HeldStatus(s) ==
  IF recvLast[s] = Null THEN "none" ELSE recvLast[s].agents[1].status

\* C4: with no file change reported, a time-derived status that a connected
\* subscriber does not hold yet is eventually sent to it in an update (unless
\* the status has moved on, or the publication history is full).
C4_TimeDerivedStatusReachesSubscribers ==
  \A s \in Subs : \A x \in AgentStatus :
    (pc[s] = "open" /\ fs.agents[1].status = x /\ HeldStatus(s) # x)
      ~> \/ HeldStatus(s) = x
         \/ fs.agents[1].status # x
         \/ pubCount = MaxPublish

\* ------------------------------------------------------------ file-change path
\* C5: every debounce-triggered read that succeeds records its snapshot as
\* lastState and emits exactly one update carrying it, to every registered
\* listener, whatever lastState held.
C5_DebounceAlwaysPublishes ==
  [][\A r \in BagToSet(reads) :
       DebounceDone(r) =>
         /\ lastState' = r.snap
         /\ pubCount' = pubCount + 1
         /\ lastPub' = r.snap
         /\ \A s \in listeners : send(s) => (recvN'[s] = recvN[s] + 1 /\ recvLast'[s] = r.snap)]_vars

\* The debounce callback has published a snapshot with the agents and
\* statuses lastState already held, and a subscriber received it.
C5_Witness ==
  /\ pubSame
  /\ lastState = lastPub
  /\ \E s \in listeners : recvN[s] >= 2 /\ recvLast[s] = lastPub

\* ------------------------------------------------------------ broadcast
\* The connection got its initial snapshot and its listener was registered.
Subscribed(s) == pc[s] = "open" /\ (~cancelled[s] \/ endAt[s] >= 0)

\* 'update' events emitted while the listener of s was registered.
PublishedWhileSubscribed(s) ==
  (IF endAt[s] >= 0 THEN endAt[s] ELSE pubCount) - regAt[s]

\* C6: a subscriber is sent one snapshot on subscribing and then every
\* snapshot published while it is subscribed, once each and in order: it has
\* received exactly one more snapshot than were published since it
\* subscribed, none from before, and the one it holds is the latest published.
C6_EverySnapshotOnce ==
  \A s \in Subs :
    IF Subscribed(s)
      THEN /\ recvN[s] = 1 + PublishedWhileSubscribed(s)
           /\ (endAt[s] < 0 /\ pubCount > regAt[s]) => recvLast[s] = lastPub
      ELSE recvN[s] = 0

\* Two subscribers, the second subscribed after an update was published: the
\* second has its initial snapshot and the one update published since.
C6_Witness ==
  /\ \A s \in Subs : pc[s] = "open" /\ ~cancelled[s]
  /\ \E s, u \in Subs :
       /\ regAt[s] = 0 /\ regAt[u] = 1 /\ pubCount = 2
       /\ recvN[s] = 3 /\ recvN[u] = 2
       /\ recvLast[s] = lastPub /\ recvLast[u] = lastPub

\* C7: cancelling the stream of one subscriber removes its listener and its
\* heartbeat timer and nothing else: the watcher, its timers, lastState, the
\* reads in flight and every other subscriber's listener and heartbeat stay,
\* and every other open subscriber keeps its listener and an open stream.
C7_UnsubscribeIsLocal ==
  /\ [][\A s \in Subs :
          (Cancel(s) /\ pc[s] = "open") =>
            /\ listeners' = listeners \ {s}
            /\ hbTimer' = [hbTimer EXCEPT ![s] = FALSE]
            /\ \A u \in Subs \ {s} : closed'[u] = closed[u]
            /\ UNCHANGED <<wvars, lastState, reads, recvN, recvLast, hbCount, pubCount>>]_vars
  /\ [](\A u \in Subs : (pc[u] = "open" /\ ~cancelled[u]) =>
                          (u \in listeners /\ hbTimer[u] /\ ~closed[u]))

\* One subscriber unsubscribed, and the other received an update published
\* after that.
C7_Witness ==
  \E s, u \in Subs :
    /\ s # u
    /\ endAt[s] >= 0 /\ s \notin listeners /\ ~hbTimer[s]
    /\ pc[u] = "open" /\ ~cancelled[u] /\ u \in listeners /\ hbTimer[u]
    /\ regAt[u] <= endAt[s] /\ pubCount > endAt[s]
    /\ recvN[u] = 1 + pubCount - regAt[u] /\ recvLast[u] = lastPub

\* C8: every heartbeat tick of an open subscription writes one keep-alive
\* line, whatever was published; once the stream is cancelled, no keep-alive
\* line and no snapshot is written to it.
C8_HeartbeatWhileOpen ==
  /\ [][\A s \in Subs :
          HeartbeatTick(s) =>
            hbCount'[s] = IF pc[s] = "open" /\ ~cancelled[s]
                            THEN hbCount[s] + 1 ELSE hbCount[s]]_vars
  /\ [][\A s \in Subs :
          cancelled[s] => (hbCount'[s] = hbCount[s] /\ recvN'[s] = recvN[s])]_vars

\* A subscriber got a keep-alive line at every tick, updates having reached it
\* before the last one.
C8_Witness ==
  \E s \in Subs :
    /\ pc[s] = "open" /\ ~cancelled[s]
    /\ recvN[s] > 1
    /\ hbTicks[s] = MaxHeartbeats
    /\ hbCount[s] = hbTicks[s]

\* ------------------------------------------------------------ life cycle
\* C9: start on a started watcher changes nothing, and however start calls
\* (one per connecting subscriber), stop calls and the timers interleave, at
\* most one chokidar watcher is open and at most one periodic timer is active.
C9_StartIsIdempotent ==
  /\ [](Cardinality(openWatchers) <= 1 /\ Cardinality(liveIntervals) <= 1)
  /\ [][(started /\ (StartCall \/ \E s \in FirstSub : Connect(s))) =>
          UNCHANGED <<wvars, lastState, reads, listeners>>]_vars

\* start was called on the running watcher, and one watcher and one periodic
\* timer exist.
C9_Witness ==
  /\ noopStart
  /\ started
  /\ openWatchers = {watcher}
  /\ liveIntervals = {reevalTimer}

\* C10: once stop has completed, and until start is called again, no debounce
\* countdown and no periodic timer is pending, the chokidar watcher is closed,
\* `started` is false, and no timer begins a readState.
C10_StopReleasesEverything ==
  /\ [](~started => /\ liveTimeouts = {}
                    /\ liveIntervals = {}
                    /\ openWatchers = {}
                    /\ watcher = 0
                    /\ ~stopping)
  /\ [][(~started /\ ~started') =>
          BagCardinality(reads') <= BagCardinality(reads)]_vars

\* stop has completed on a watcher that had been started.
C10_Witness ==
  /\ ~started
  /\ ~stopping
  /\ reevalTimer # 0
  /\ watcher = 0
  /\ liveIntervals = {}
  /\ liveTimeouts = {}
  /\ openWatchers = {}

\* ------------------------------------------------------------ reads in flight at stop
\* C11: a read that was in flight when stop was called may complete, but once
\* the watcher is stopped its result is not published: no update is emitted
\* and lastState stays as it is.
C11_NoPublishAfterStop ==
  [][\A r \in BagToSet(reads) :
       ((DebounceDone(r) \/ ReevaluateDone(r)) /\ ~started) =>
         (pubCount' = pubCount /\ lastState' = lastState /\ recvN' = recvN)]_vars

\* ------------------------------------------------------------ failing reads
\* C12: a failing read publishes nothing and leaves lastState alone, and the
\* watcher stays as it was: started, its chokidar watcher open (so that later
\* notifications start countdowns), its periodic timer active, the process
\* alive; this although no 'error' listener is registered.
C12_ReadFailureLeavesWatcherRunning ==
  [][\A r \in BagToSet(reads) :
       (ReadFail(r) \/ ReadFailFatal(r)) =>
         /\ pubCount' = pubCount
         /\ lastState' = lastState
         /\ recvN' = recvN
         /\ UNCHANGED <<started, watcher, openWatchers, reevalTimer, liveIntervals>>
         /\ ~exited']_vars

\* ------------------------------------------------------------ status thresholds
MsPerMinute == 60 * 1000

JsNull == "null"

\* Date.now() at the moment of a readState call, in ms.
NowMs == 5000000

\* Characters of the rendering of an instant.
IsoWidth == 7

\* The most events a snapshot of the MAMH adapter carries.
ACTIVITY_CAP == 500

RECURSIVE Digits(_, _)
Digits(n, width) ==
  IF width = 0 THEN <<>> ELSE Append(Digits(n \div 10, width - 1), n % 10)

\* Date.toISOString(): a fixed-width string, modelled by its characters.
toISOString(ms) == Digits(ms, IsoWidth)

\* a.localeCompare(b) of two timestamp strings: -1, 0 or 1.
RECURSIVE localeCompare(_, _)
localeCompare(a, b) ==
  IF a = <<>> THEN (IF b = <<>> THEN 0 ELSE -1)
  ELSE IF b = <<>> THEN 1
  ELSE IF Head(a) < Head(b) THEN -1
  ELSE IF Head(a) > Head(b) THEN 1
  ELSE localeCompare(Tail(a), Tail(b))

\* events.sort((a, b) => dir * a.timestamp.localeCompare(b.timestamp)): a
\* stable sort, ascending for dir = 1 and descending for dir = -1.
sortByTimestamp(events, dir) ==
  LET n == Len(events)
      Before(i, j) ==
        LET c == dir * localeCompare(events[i].timestamp, events[j].timestamp)
        IN  c < 0 \/ (c = 0 /\ i < j)
      Place(rank) == [r \in 1..n |-> events[CHOOSE i \in 1..n : rank[i] = r]] \o <<>>
  IN  Place([i \in 1..n |-> 1 + Cardinality({ j \in 1..n : Before(j, i) })] \o <<>>)

\* events.slice(-k)
sliceLast(events, k) ==
  IF Len(events) <= k THEN events
  ELSE SubSeq(events, Len(events) - k + 1, Len(events))

\* path.basename(file, '.jsonl')
basename(file) == file.base

SessionFile(base) == [dir |-> "subagents", base |-> base, ext |-> ".jsonl"]

\* An AgentSession as readSubagentSessions builds it from a transcript that
\* was modified `elapsed` ms ago.
AgentSession(agentId, agentName, elapsed) ==
  [ agentId |-> agentId, agentName |-> agentName,
    sessionFile |-> SessionFile(agentId),
    lastModified |-> NowMs - elapsed,
    activity |-> deriveActivity(elapsed) ]

NoMainSession == [present |-> FALSE]

MainSession(elapsed) ==
  [ present |-> TRUE, sessionId |-> "main-1",
    lastModified |-> NowMs - elapsed,
    activity |-> deriveActivity(elapsed) ]

\* readSessionSnapshot: without a main session there are no subagents.
SessionSnapshot(main, subagents) ==
  [ mainSession |-> main,
    subagents |-> IF main.present THEN subagents ELSE <<>> ]

AGENT_COLORS == <<"blue", "red", "green", "yellow", "purple", "cyan">>

\* The palette taken from its second colour on.
assignColorAfterLead(index) == AGENT_COLORS[((index + 1) % Len(AGENT_COLORS)) + 1]

\* assignColor(index), index counted from 0.
assignColor(index) == AGENT_COLORS[(index % Len(AGENT_COLORS)) + 1]

\* The agent readAgents makes of the entry at `index` (from 0) whose model
\* tier field holds `tier`.
RegistryAgent(id, tier, index) ==
  [ id |-> id, modelTier |-> IF tier = JsNull THEN "sonnet" ELSE tier,
    status |-> "idle", color |-> assignColor(index),
    ticketsAssigned |-> 0, ticketsCompleted |-> 0,
    currentTicket |-> JsNull, sessionId |-> JsNull ]

\* What a call that may throw comes back with.
Returned(v) == [threw |-> FALSE, value |-> v]
Threw(message) == [threw |-> TRUE, message |-> message]

\* MamhAdapter.readAgents over the registry file.
readAgents(registry) ==
  IF registry.kind = "absent" THEN Returned(<<>>)
  ELSE IF registry.kind = "malformed" THEN Threw("Unexpected token")
  ELSE IF registry.kind \in {"array", "object"}
    THEN Returned([i \in DOMAIN registry.ids |->
                    RegistryAgent(registry.ids[i],
                                  IF registry.kind = "array"
                                    THEN registry.tiers[i].modelTier
                                    ELSE registry.tiers[i].model,
                                  i - 1)])
  ELSE Returned(<<>>)

NoMamhState == [kind |-> "null"]

\* MamhAdapter.readMamhState over state/mamh-state.json.
readMamhState(state) ==
  IF state.kind = "absent" THEN Returned(NoMamhState)
  ELSE IF state.kind = "malformed" THEN Threw("Unexpected token")
  ELSE IF state.kind = "jsonNull" THEN Threw("Cannot read properties of null")
  ELSE IF state.kind = "flat"
    THEN Returned([kind |-> "state", phase |-> state.phase, status |-> state.status,
                   milestoneCompletions |-> state.completions])
  ELSE IF state.kind = "rich"
    THEN Returned([kind |-> "state", phase |-> state.phase, status |-> state.phase,
                   milestoneCompletions |-> state.completions])
  ELSE Returned(NoMamhState)

\* MamhAdapter.readActivity: ticket outputs, decisions and milestone
\* completions, oldest first, the last ACTIVITY_CAP of them.
readActivity(disk) ==
  LET outputs ==
        [i \in DOMAIN disk.comms |->
          [ timestamp |-> toISOString(disk.comms[i].mtime),
            agentId |-> disk.comms[i].agentId,
            sessionId |-> JsNull,
            type |-> IF disk.comms[i].completed THEN "ticket-completed"
                     ELSE "ticket-started" ]]
      decisions ==
        [i \in 1..disk.decisions.sections |->
          [ timestamp |-> toISOString(disk.decisions.mtime),
            agentId |-> "lead", sessionId |-> "main", type |-> "system" ]]
      completions ==
        IF disk.state.kind \in {"flat", "rich", "other"}
          THEN [i \in DOMAIN disk.state.completions |->
                 [ timestamp |-> disk.state.completions[i].completedAt,
                   agentId |-> "lead", sessionId |-> "main",
                   type |-> "milestone-completed" ]]
          ELSE <<>>
  IN  sliceLast(sortByTimestamp(outputs \o decisions \o completions, 1), ACTIVITY_CAP)

\* The characters of the ticket ids, milestone names and map keys in use.
Chars(s) ==
  CASE s = "" -> <<>>
    [] s = "M1" -> <<"M", "1">>
    [] s = "M2" -> <<"M", "2">>
    [] s = "M10" -> <<"M", "1", "0">>
    [] s = "T1" -> <<"T", "1">>
    [] s = "T2" -> <<"T", "2">>
    [] s = "T10" -> <<"T", "1", "0">>

\* String.prototype.includes
includes(s, searchString) ==
  LET hay == Chars(s)
      needle == Chars(searchString)
  IN  \E i \in 1..(Len(hay) - Len(needle) + 1) :
        SubSeq(hay, i, i + Len(needle) - 1) = needle

\* String.prototype.startsWith
startsWith(s, searchString) ==
  LET hay == Chars(s)
      needle == Chars(searchString)
  IN  Len(needle) <= Len(hay) /\ SubSeq(hay, 1, Len(needle)) = needle

\* The override that looks at the milestone of a ticket only.
applyMilestoneCompletionsByMilestone(tickets, milestoneCompletions) ==
  [i \in DOMAIN tickets |->
    IF \E k \in DOMAIN milestoneCompletions :
         includes(tickets[i].milestone, milestoneCompletions[k].milestone)
      THEN [tickets[i] EXCEPT !.status = "completed"]
      ELSE tickets[i]]

\* milestoneCompletions holds the entries of the map in the order of its keys.
applyMilestoneCompletions(tickets, milestoneCompletions) ==
  [i \in DOMAIN tickets |->
    IF \E k \in DOMAIN milestoneCompletions :
         \/ includes(tickets[i].milestone, milestoneCompletions[k].milestone)
         \/ startsWith(tickets[i].id, milestoneCompletions[k].milestone)
      THEN [tickets[i] EXCEPT !.status = "completed"]
      ELSE tickets[i]]

\* The least index of a non-empty set of indices.
FirstIndex(S) == CHOOSE i \in S : \A j \in S : i <= j

\* sessionByName.get(id) ?? sessionById.get(id): 0 when there is none. The
\* name map keeps the first session of a name, the id map the last of an id.
matchedSessionIdFirst(subagents, id) ==
  LET byName == { i \in DOMAIN subagents : subagents[i].agentName = id }
      byId == { i \in DOMAIN subagents : subagents[i].agentId = id }
  IN  IF byId # {} THEN CHOOSE i \in byId : \A j \in byId : j <= i
      ELSE IF byName # {} THEN FirstIndex(byName)
      ELSE 0

matchedSession(subagents, id) ==
  LET byName == { i \in DOMAIN subagents :
                    subagents[i].agentName # JsNull /\ subagents[i].agentName = id }
      byId == { i \in DOMAIN subagents : subagents[i].agentId = id }
  IN  IF byName # {} THEN FirstIndex(byName)
      ELSE IF byId # {} THEN CHOOSE i \in byId : \A j \in byId : j <= i
      ELSE 0

\* The status of an agent without a session, from its tickets.
ticketStatus(agentTickets) ==
  IF \E i \in DOMAIN agentTickets : agentTickets[i].status = "in-progress"
    THEN "working"
  ELSE IF Len(agentTickets) > 0
          /\ \A i \in DOMAIN agentTickets : agentTickets[i].status = "completed"
    THEN "completed"
  ELSE "idle"

statusInProgressWins(m, subagents, agentTickets) ==
  IF \E i \in DOMAIN agentTickets : agentTickets[i].status = "in-progress"
    THEN "working"
  ELSE IF m # 0 THEN subagents[m].activity
  ELSE ticketStatus(agentTickets)

\* The status of an agent whose matched session is subagents[m] (none: m = 0).
derivedStatus(m, subagents, agentTickets) ==
  IF m # 0 THEN subagents[m].activity ELSE ticketStatus(agentTickets)

deriveAgentStatusesFromSession(agents, tickets, sessionSnap) ==
  [a \in DOMAIN agents |->
    LET agentTickets == SelectSeq(tickets, LAMBDA t : t.agentId = agents[a].id)
        inProgress == SelectSeq(agentTickets, LAMBDA t : t.status = "in-progress")
        completed == SelectSeq(agentTickets, LAMBDA t : t.status = "completed")
        m == matchedSession(sessionSnap.subagents, agents[a].id)
    IN  [ agents[a] EXCEPT
            !.status = derivedStatus(m, sessionSnap.subagents, agentTickets),
            !.ticketsAssigned = Len(agentTickets),
            !.ticketsCompleted = Len(completed),
            !.currentTicket = IF Len(inProgress) > 0 THEN inProgress[1].id ELSE JsNull,
            !.sessionId = IF m # 0 THEN basename(sessionSnap.subagents[m].sessionFile)
                          ELSE agents[a].sessionId ]]

sessionType(activity) ==
  IF activity = "working" THEN "ticket-started"
  ELSE IF activity = "completed" THEN "ticket-completed"
  ELSE "agent-idle"

leadEvent(main) ==
  [ timestamp |-> toISOString(main.lastModified), agentId |-> "lead",
    sessionId |-> main.sessionId,
    type |-> IF main.activity = "working" THEN "agent-spawned" ELSE "agent-idle" ]

subagentEvent(sub) ==
  [ timestamp |-> toISOString(sub.lastModified),
    agentId |-> IF sub.agentName # JsNull THEN sub.agentName ELSE sub.agentId,
    sessionId |-> basename(sub.sessionFile),
    type |-> sessionType(sub.activity) ]

\* The sessions that buildSessionActivityEvents keeps: those of a known agent.
knownSubagents(sessionSnap, agents) ==
  SelectSeq(sessionSnap.subagents,
    LAMBDA sub :
      \E a \in DOMAIN agents :
        \/ agents[a].id = (IF sub.agentName # JsNull THEN sub.agentName ELSE sub.agentId)
        \/ agents[a].id = sub.agentId)

buildSessionActivityEvents(sessionSnap, agents) ==
  LET kept == knownSubagents(sessionSnap, agents) IN
    (IF sessionSnap.mainSession.present THEN <<leadEvent(sessionSnap.mainSession)>>
     ELSE <<>>)
      \o [i \in DOMAIN kept |-> subagentEvent(kept[i])]

\* The fallback with its last two assignments exchanged.
buildLeadAgentWorkingLast(mamhState, subagents, sessionSnap) ==
  LET known == mamhState.kind = "state"
      isExecuting == known /\ (mamhState.phase = "executing" \/ mamhState.status = "executing")
      hasActiveSubagents == \E i \in DOMAIN subagents : subagents[i].status = "working"
      allDone == known /\ mamhState.status \in {"milestone-complete", "completed"}
      status ==
        IF sessionSnap.mainSession.present THEN sessionSnap.mainSession.activity
        ELSE IF isExecuting \/ hasActiveSubagents THEN "working"
        ELSE IF allDone THEN "completed"
        ELSE "idle"
  IN  [ id |-> "lead", modelTier |-> "opus", status |-> status, color |-> "blue",
        ticketsAssigned |-> 0, ticketsCompleted |-> 0, currentTicket |-> JsNull,
        sessionId |-> IF sessionSnap.mainSession.present
                        THEN sessionSnap.mainSession.sessionId ELSE "main" ]

buildLeadAgent(mamhState, subagents, sessionSnap) ==
  LET known == mamhState.kind = "state"
      isExecuting == known /\ (mamhState.phase = "executing" \/ mamhState.status = "executing")
      hasActiveSubagents == \E i \in DOMAIN subagents : subagents[i].status = "working"
      allDone == known /\ mamhState.status \in {"milestone-complete", "completed"}
      status ==
        IF sessionSnap.mainSession.present THEN sessionSnap.mainSession.activity
        ELSE IF allDone THEN "completed"
        ELSE IF isExecuting \/ hasActiveSubagents THEN "working"
        ELSE "idle"
  IN  [ id |-> "lead", modelTier |-> "opus", status |-> status, color |-> "blue",
        ticketsAssigned |-> 0, ticketsCompleted |-> 0, currentTicket |-> JsNull,
        sessionId |-> IF sessionSnap.mainSession.present
                        THEN sessionSnap.mainSession.sessionId ELSE "main" ]

createEmptyState(error) ==
  [agents |-> <<>>, tickets |-> <<>>, activity |-> <<>>, error |-> error]

fileExistsAlways(disk) == TRUE

\* fileExists(this.mamhDir)
fileExists(disk) == disk.mamhDir

\* MamhAdapter.readState over what is on disk at the moment of the call: the
\* snapshots it can resolve to. Promise.all rejects with the reader that
\* fails first, which the timing of the reads decides.
MamhReadState(disk) ==
  IF ~fileExists(disk) THEN { createEmptyState("No .mamh directory found") }
  ELSE
    LET agentsR == readAgents(disk.registry)
        stateR == readMamhState(disk.state)
        rejected == (IF agentsR.threw THEN {agentsR.message} ELSE {})
                      \cup (IF stateR.threw THEN {stateR.message} ELSE {})
    IN  IF rejected # {} THEN { createEmptyState(message) : message \in rejected }
        ELSE
          LET mamhState == stateR.value
              sessionSnap == SessionSnapshot(disk.main, disk.subagents)
              milestoneCompletions ==
                IF mamhState.kind = "state" THEN mamhState.milestoneCompletions ELSE <<>>
              tickets == applyMilestoneCompletions(disk.tickets, milestoneCompletions)
              agentsWithStatus ==
                deriveAgentStatusesFromSession(agentsR.value, tickets, sessionSnap)
              leadAgent == buildLeadAgent(mamhState, agentsWithStatus, sessionSnap)
              allActivity ==
                sortByTimestamp(
                  readActivity(disk) \o buildSessionActivityEvents(sessionSnap, agentsWithStatus),
                  1)
          IN  { [ agents |-> <<leadAgent>> \o agentsWithStatus,
                  tickets |-> tickets,
                  activity |-> sliceLast(allActivity, ACTIVITY_CAP),
                  error |-> JsNull ] }

STALE_CUTOFF_MS == 60 * 60 * 1000

\* ClaudeCodeAdapter.readState over the session transcripts, with Date.now()
\* reading `now`.
ClaudeCodeReadStateAt(disk, now) ==
  LET sessionSnap == SessionSnapshot(disk.main, disk.subagents)
      main == sessionSnap.mainSession
      recentSubagents ==
        SelectSeq(sessionSnap.subagents,
          LAMBDA s : s.activity # "idle" \/ (now - s.lastModified) < STALE_CUTOFF_MS)
      lead ==
        IF main.present
          THEN << [ id |-> "lead", modelTier |-> "opus", status |-> main.activity,
                    color |-> "blue", ticketsAssigned |-> 0,
                    ticketsCompleted |-> 0, currentTicket |-> JsNull,
                    sessionId |-> main.sessionId ] >>
          ELSE <<>>
      subs ==
        [i \in DOMAIN recentSubagents |->
          [ id |-> subagentEvent(recentSubagents[i]).agentId,
            modelTier |-> "sonnet",
            status |-> recentSubagents[i].activity,
            color |-> AGENT_COLORS[(i % Len(AGENT_COLORS)) + 1],
            ticketsAssigned |-> 0, ticketsCompleted |-> 0, currentTicket |-> JsNull,
            sessionId |-> basename(recentSubagents[i].sessionFile) ]]
      activity ==
        (IF main.present THEN <<leadEvent(main)>> ELSE <<>>)
          \o [i \in DOMAIN recentSubagents |-> subagentEvent(recentSubagents[i])]
  IN  [ agents |-> lead \o subs, tickets |-> <<>>,
        activity |-> sortByTimestamp(activity, -1), error |-> JsNull ]

ClaudeCodeReadState(disk) == ClaudeCodeReadStateAt(disk, NowMs)

\* ------------------------------------------------------------ what is on disk
Disk(mamhDir, registry, state, tickets, main, subagents, comms, decisions) ==
  [ mamhDir |-> mamhDir, registry |-> registry, state |-> state, tickets |-> tickets,
    main |-> main, subagents |-> subagents, comms |-> comms, decisions |-> decisions ]

SeqsUpTo2(S) == {<<>>} \cup { <<x>> : x \in S } \cup { <<x, y>> : x \in S, y \in S }

\* An entry of the registry that names no model tier.
NoTier == [modelTier |-> JsNull, model |-> JsNull]

\* registry.json: its shape, the ids of its entries in the order of
\* enumeration, and what each entry holds in `modelTier` and in `model`.
RegistryFileTiers(kind, ids, tiers) == [kind |-> kind, ids |-> ids, tiers |-> tiers]

RegistryFile(kind, ids) == RegistryFileTiers(kind, ids, [i \in DOMAIN ids |-> NoTier])

\* registry.json: missing, not JSON, JSON of neither schema, the array schema
\* (ids as written, repeated or 'lead' included) or the object schema (keys).
RegistryFiles ==
  { RegistryFile(k, <<>>) : k \in {"absent", "malformed", "other"} }
    \cup { RegistryFile("array", ids) : ids \in SeqsUpTo2({"lead", "a"}) }
    \cup { RegistryFile("object", ids) :
             ids \in { s \in SeqsUpTo2({"lead", "a"}) : Len(s) < 2 \/ s[1] # s[2] } }

StateFile(kind, phase, status, completions) ==
  [kind |-> kind, phase |-> phase, status |-> status, completions |-> completions]

CompletionLists ==
  { <<>>, << [milestone |-> "M1", completedAt |-> toISOString(NowMs - 1000)] >> }

\* mamh-state.json: missing, not JSON, the JSON text null, JSON of neither
\* schema, the flat schema or the rich schema.
StateFiles ==
  { StateFile(k, "", "", <<>>) : k \in {"absent", "malformed", "jsonNull"} }
    \cup { StateFile("other", "", "", c) : c \in CompletionLists }
    \cup { StateFile("flat", "3", s, c) : s \in {"executing", "completed"}, c \in CompletionLists }
    \cup { StateFile("rich", p, "", c) : p \in {"executing", "planning"}, c \in CompletionLists }

Ticket(id, agentId, status, milestone) ==
  [id |-> id, agentId |-> agentId, status |-> status, milestone |-> milestone]

TicketStatus == {"in-progress", "completed", "pending"}

\* Up to two tickets of agent a, the first of milestone M1, the second of M2.
TicketLists ==
  {<<>>}
    \cup { << Ticket("T1", "a", s, "M1") >> : s \in TicketStatus }
    \cup { << Ticket("T1", "a", s, "M1"), Ticket("T2", "a", u, "M2") >> :
             s \in TicketStatus, u \in TicketStatus }

MainSessions ==
  { NoMainSession } \cup { MainSession(e) : e \in {0, ACTIVE_THRESHOLD_MS, DONE_THRESHOLD_MS} }

SessionAges == {1000, ACTIVE_THRESHOLD_MS + 1000, STALE_CUTOFF_MS + 1000}

OneSession ==
  { AgentSession(id, name, e) :
      id \in {"a", "h1", "h2"}, name \in {JsNull, "a", "zed"}, e \in SessionAges }

\* What readSubagentSessions returns: newest first, one session per agentId.
SubagentLists ==
  {<<>>} \cup { <<s>> : s \in OneSession }
    \cup { p \in OneSession \X OneSession :
             /\ p[2].agentId # p[1].agentId
             /\ p[2].lastModified <= p[1].lastModified }

NoDecisions == [sections |-> 0, mtime |-> 0]

\* A registry of agent a, and one that also names an agent by its opaque id.
PresentRegistry == { RegistryFile("array", <<"a">>), RegistryFile("array", <<"h1", "a">>) }

\* No artifact root: none of its files is there either.
DisksMissing ==
  { Disk(FALSE, RegistryFile("absent", <<>>), StateFile("absent", "", "", <<>>),
         <<>>, m, <<>>, <<>>, NoDecisions) : m \in MainSessions }

\* Roots that differ in which artifacts are there and in what shape.
DisksArtifacts ==
  { Disk(TRUE, r, s, <<>>, m, <<>>, <<>>, NoDecisions) :
      r \in RegistryFiles, s \in StateFiles, m \in MainSessions }

\* Roots that differ in the tickets and in the sessions of the agents.
DisksMatching ==
  { Disk(TRUE, r, StateFile("absent", "", "", <<>>), t, MainSession(0), s, <<>>, NoDecisions) :
      r \in PresentRegistry, t \in TicketLists, s \in SubagentLists }

\* n ticket output files, written one after the other (step = 1) or listed
\* by the directory in the reverse of that order (step = -1).
CommsRun(n, step) ==
  [i \in 1..n |->
    [ mtime |-> NowMs - 100000 + step * i, agentId |-> "a", completed |-> (i % 2 = 0) ]]

ActivityVolumes == {0, 1, 3}

ActivityDisk(c, s, n, step, k) ==
  Disk(TRUE, RegistryFile("array", <<"a">>), StateFile("flat", "3", "executing", c),
       <<>>, MainSession(0), s, CommsRun(n, step),
       [sections |-> k, mtime |-> NowMs - 99000])

\* Roots that differ in how many events their sources yield: a few, or one
\* more ticket output than the log holds.
DisksActivity ==
  { ActivityDisk(c, s, n, step, k) :
      c \in CompletionLists,
      s \in { <<>>, <<AgentSession("a", JsNull, 1000)>> },
      n \in ActivityVolumes, step \in {1, -1}, k \in {0, 2} }
    \cup { ActivityDisk(<<>>, s, ACTIVITY_CAP + 1, step, 2) :
             s \in { <<>>, <<AgentSession("a", JsNull, 1000)>> }, step \in {1, -1} }

MamhDisks == DisksMissing \cup DisksArtifacts \cup DisksMatching \cup DisksActivity

\* The transcripts of a project without a registry.
SessionDisks ==
  { Disk(FALSE, RegistryFile("absent", <<>>), StateFile("absent", "", "", <<>>),
         <<>>, m, s, <<>>, NoDecisions) : m \in MainSessions, s \in SubagentLists }

\* The first readState of a MAMH adapter.
MamhReadStateCall(disk) ==
  /\ calc.op = "none"
  /\ \E out \in MamhReadState(disk) :
       calc' = [op |-> "MamhAdapter.readState", disk |-> disk, out |-> out,
                before |-> "none"]
  /\ UNCHANGED pvars

\* The artifact root was missing at the first readState; the disk is now
\* `disk` and readState is called again.
MamhReadStateAgain(disk) ==
  /\ calc.op = "MamhAdapter.readState"
  /\ calc.before = "none"
  /\ ~calc.disk.mamhDir
  /\ \E out \in MamhReadState(disk) :
       calc' = [op |-> "MamhAdapter.readState", disk |-> disk, out |-> out,
                before |-> "missing"]
  /\ UNCHANGED pvars

\* A readState of the Claude Code adapter.
ClaudeCodeReadStateCall(disk) ==
  /\ calc.op = "none"
  /\ calc' = [op |-> "ClaudeCodeAdapter.readState", disk |-> disk,
              out |-> ClaudeCodeReadState(disk), before |-> "none"]
  /\ UNCHANGED pvars

NextAdapters ==
  \/ \E disk \in MamhDisks : MamhReadStateCall(disk)
  \/ \E disk \in DisksMissing \cup DisksArtifacts : MamhReadStateAgain(disk)
  \/ \E disk \in SessionDisks : ClaudeCodeReadStateCall(disk)

SpecAdapters == Init /\ [][NextAdapters]_vars

\* ------------------------------------------------------------ a missing root
\* C14: when the artifact root does not exist, readState returns the snapshot
\* without agents, tickets and activity whose error says that the root is
\* missing; the root is looked for on every call, so a readState after the
\* root has appeared no longer reports that error.
C14_MissingRootIsErrorState ==
  calc.op = "MamhAdapter.readState" =>
    /\ ~calc.disk.mamhDir =>
         /\ calc.out.agents = <<>>
         /\ calc.out.tickets = <<>>
         /\ calc.out.activity = <<>>
         /\ calc.out.error = "No .mamh directory found"
         /\ calc.out.error # JsNull
    /\ calc.disk.mamhDir => calc.out.error # "No .mamh directory found"

\* The root was missing at the first call, is there at the second, and the
\* second snapshot has the lead and no error.
C14_Witness ==
  /\ calc.op = "MamhAdapter.readState"
  /\ calc.before = "missing"
  /\ calc.disk.mamhDir
  /\ calc.out.error = JsNull
  /\ Len(calc.out.agents) > 0

\* ------------------------------------------------------------ damaged artifacts
\* C15: when the artifact root exists, the snapshot's error is null whichever
\* artifacts are absent, malformed or of an unrecognised shape, and what the
\* other sources yield is still there: the tickets on disk, and the lead with
\* the status of the main session.
C15_DamagedArtifactYieldsDefaults ==
  (calc.op = "MamhAdapter.readState" /\ calc.disk.mamhDir) =>
    /\ calc.out.error = JsNull
    /\ Len(calc.out.tickets) = Len(calc.disk.tickets)
    /\ calc.disk.main.present =>
         /\ Len(calc.out.agents) > 0
         /\ calc.out.agents[1].status = calc.disk.main.activity

\* ------------------------------------------------------------ the lead
\* C16: a snapshot assembled from an existing artifact root has exactly one
\* agent with id 'lead', and it is the first of the list, whatever the
\* registry contains.
C16_ExactlyOneLeadFirst ==
  (calc.op = "MamhAdapter.readState" /\ calc.disk.mamhDir) =>
    /\ Cardinality({ i \in DOMAIN calc.out.agents : calc.out.agents[i].id = "lead" }) = 1
    /\ calc.out.agents[1].id = "lead"

\* ------------------------------------------------------------ agent status
\* The subordinate sessions the snapshot was assembled from.
SessionsRead == SessionSnapshot(calc.disk.main, calc.disk.subagents).subagents

\* Session s matches the agent id: by its declared name or its opaque id.
Matches(s, id) == s.agentName = id \/ s.agentId = id

\* The tickets of the snapshot that are assigned to the agent id.
TicketsOf(id) == SelectSeq(calc.out.tickets, LAMBDA t : t.agentId = id)

\* C17: a registry agent that a subordinate session matches has the activity
\* of a matching session as its status, whatever its tickets are; a registry
\* agent without a matching session is working when one of its tickets is in
\* progress, completed when it has tickets and all are completed, and idle
\* otherwise.
C17_StatusFromSessionElseTickets ==
  calc.op = "MamhAdapter.readState" =>
    \A i \in DOMAIN calc.out.agents :
      i > 1 =>
        LET agent == calc.out.agents[i]
            matching == { k \in DOMAIN SessionsRead : Matches(SessionsRead[k], agent.id) }
            mine == TicketsOf(agent.id)
            inProgress == \E k \in DOMAIN mine : mine[k].status = "in-progress"
            allCompleted == \A k \in DOMAIN mine : mine[k].status = "completed"
        IN  IF matching # {}
              THEN \E k \in matching : agent.status = SessionsRead[k].activity
              ELSE agent.status =
                     (IF inProgress THEN "working"
                      ELSE IF Len(mine) > 0 /\ allCompleted THEN "completed"
                      ELSE "idle")

\* Agent a has a ticket in progress and a session that went quiet more than
\* two minutes ago: its status is the session's, completed.
C17_Witness ==
  /\ calc.op = "MamhAdapter.readState"
  /\ Len(calc.out.agents) = 2
  /\ calc.out.agents[2].id = "a"
  /\ calc.out.agents[2].status = "completed"
  /\ \E k \in DOMAIN calc.out.tickets :
       calc.out.tickets[k].agentId = "a" /\ calc.out.tickets[k].status = "in-progress"
  /\ \E k \in DOMAIN SessionsRead :
       Matches(SessionsRead[k], "a") /\ SessionsRead[k].activity = "completed"

\* ------------------------------------------------------------ identity resolution
\* The registry agent `agent` resolved to session k: it carries the session's
\* file name as its sessionId and the session's activity as its status.
ResolvedTo(agent, k) ==
  /\ agent.sessionId = SessionsRead[k].sessionFile.base
  /\ agent.status = SessionsRead[k].activity

\* C18: a registry agent resolves to a session whose declared name is the
\* agent's id, the newest of them, even when that session's opaque id differs
\* and another session's opaque id is the agent's id; only without a session
\* of that name does it resolve to the session whose opaque id is its id.
C18_NameMatchBeforeIdMatch ==
  calc.op = "MamhAdapter.readState" =>
    \A i \in DOMAIN calc.out.agents :
      i > 1 =>
        LET agent == calc.out.agents[i]
            byName == { k \in DOMAIN SessionsRead : SessionsRead[k].agentName = agent.id }
            byId == { k \in DOMAIN SessionsRead : SessionsRead[k].agentId = agent.id }
        IN  IF byName # {}
              THEN \E k \in byName :
                     /\ \A j \in byName :
                          SessionsRead[j].lastModified <= SessionsRead[k].lastModified
                     /\ ResolvedTo(agent, k)
            ELSE IF byId # {}
              THEN \E k \in byId : ResolvedTo(agent, k)
            ELSE agent.sessionId = JsNull

\* The newest session has agent a's id as its opaque id, an older one with
\* another opaque id declares the name a: agent a resolves to the older one.
C18_Witness ==
  /\ calc.op = "MamhAdapter.readState"
  /\ Len(SessionsRead) = 2
  /\ SessionsRead[1].agentId = "a" /\ SessionsRead[1].agentName # "a"
  /\ SessionsRead[2].agentId = "h1" /\ SessionsRead[2].agentName = "a"
  /\ SessionsRead[1].activity = "working" /\ SessionsRead[2].activity = "completed"
  /\ \E i \in DOMAIN calc.out.agents :
       /\ calc.out.agents[i].id = "a"
       /\ calc.out.agents[i].sessionId = "h1"
       /\ calc.out.agents[i].status = "completed"

\* ------------------------------------------------------------ unmatched sessions
\* The ids of the registry agents of the snapshot (the Claude Code adapter
\* has no registry).
RegistryIdsOfSnapshot ==
  IF calc.op = "MamhAdapter.readState"
    THEN { calc.out.agents[i].id : i \in { j \in DOMAIN calc.out.agents : j > 1 } }
    ELSE {}

\* C19: a subordinate session that matches no registry agent, neither by its
\* declared name nor by its opaque id, contributes exactly one activity event
\* to the snapshot, keyed by the identifier it carries.
C19_UnmatchedSessionKeepsEvent ==
  calc.op \in {"MamhAdapter.readState", "ClaudeCodeAdapter.readState"} =>
    \A k \in DOMAIN SessionsRead :
      LET s == SessionsRead[k] IN
        (\A id \in RegistryIdsOfSnapshot : ~Matches(s, id)) =>
          Cardinality({ e \in DOMAIN calc.out.activity :
                          /\ calc.out.activity[e].sessionId = s.sessionFile.base
                          /\ calc.out.activity[e].agentId \in {s.agentName, s.agentId} }) = 1

\* ------------------------------------------------------------ the activity log
\* The log is in ascending order of its timestamps.
Ascending(log) ==
  \A e \in 1..(Len(log) - 1) : localeCompare(log[e].timestamp, log[e + 1].timestamp) <= 0

\* Every ticket output that is later than the first entry of the log is in
\* the log.
KeepsLatestOutputs(log, comms) ==
  \A i \in DOMAIN comms :
    localeCompare(toISOString(comms[i].mtime), log[1].timestamp) > 0 =>
      \E e \in DOMAIN log :
        /\ log[e].timestamp = toISOString(comms[i].mtime)
        /\ log[e].type \in {"ticket-started", "ticket-completed"}
        /\ log[e].sessionId = JsNull

\* C20: in every snapshot the activity log is in ascending timestamp order
\* and has at most 500 entries; when the sources yield more than 500 events,
\* the log is the 500 with the latest timestamps.
C20_LogAscendingAndCapped ==
  calc.op \in {"MamhAdapter.readState", "ClaudeCodeAdapter.readState"} =>
    /\ Ascending(calc.out.activity)
    /\ Len(calc.out.activity) <= ACTIVITY_CAP
    /\ Len(calc.disk.comms) > ACTIVITY_CAP =>
         /\ Len(calc.out.activity) = ACTIVITY_CAP
         /\ KeepsLatestOutputs(calc.out.activity, calc.disk.comms)

\* ------------------------------------------------------------ assembling twice
\* The transcripts read with the clock at `now` and left alone by the read:
\* the modification times are what they were, the activities are derived anew.
AtClockTouched(disk, now) ==
  LET touched(t) == [t EXCEPT !.lastModified = now, !.activity = deriveActivity(0)]
  IN  [disk EXCEPT
        !.main = IF disk.main.present THEN touched(disk.main) ELSE disk.main,
        !.subagents = [i \in DOMAIN disk.subagents |-> touched(disk.subagents[i])]]

AtClock(disk, now) ==
  LET aged(t) == [t EXCEPT !.activity = deriveActivity(now - t.lastModified)]
  IN  [disk EXCEPT
        !.main = IF disk.main.present THEN aged(disk.main) ELSE disk.main,
        !.subagents = [i \in DOMAIN disk.subagents |-> aged(disk.subagents[i])]]

\* Time between the two assemblies: none, a second, the working threshold.
Delays == {0, 1000, ACTIVE_THRESHOLD_MS}

DisksTwice ==
  DisksMissing \cup DisksArtifacts \cup { d \in DisksMatching : d.tickets = <<>> }

\* readState twice over the same files, the second call dt ms after the first.
MamhAssembleTwice(disk, dt) ==
  /\ calc.op = "none"
  /\ \E first \in MamhReadState(disk) :
       \E second \in MamhReadState(AtClock(disk, NowMs + dt)) :
         calc' = [op |-> "readState twice", adapter |-> "mamh", disk |-> disk,
                  dt |-> dt, first |-> first, second |-> second]
  /\ UNCHANGED pvars

ClaudeCodeAssembleTwice(disk, dt) ==
  /\ calc.op = "none"
  /\ calc' = [op |-> "readState twice", adapter |-> "claude-code", disk |-> disk,
              dt |-> dt, first |-> ClaudeCodeReadState(disk),
              second |-> ClaudeCodeReadStateAt(AtClock(disk, NowMs + dt), NowMs + dt)]
  /\ UNCHANGED pvars

NextTwice ==
  \/ \E disk \in DisksTwice, dt \in Delays : MamhAssembleTwice(disk, dt)
  \/ \E disk \in SessionDisks, dt \in Delays : ClaudeCodeAssembleTwice(disk, dt)

SpecTwice == Init /\ [][NextTwice]_vars

TranscriptTimes ==
  (IF calc.disk.main.present THEN {calc.disk.main.lastModified} ELSE {})
    \cup { calc.disk.subagents[i].lastModified : i \in DOMAIN calc.disk.subagents }

\* No transcript changes its derived activity, or turns stale, between the
\* two assemblies.
SameAges ==
  \A lm \in TranscriptTimes :
    /\ deriveActivity(NowMs - lm) = deriveActivity(NowMs + calc.dt - lm)
    /\ ((NowMs - lm) < STALE_CUTOFF_MS) = ((NowMs + calc.dt - lm) < STALE_CUTOFF_MS)

\* Both the registry and the orchestration state fail to parse.
BothUnparseable ==
  /\ calc.adapter = "mamh"
  /\ calc.disk.mamhDir
  /\ calc.disk.registry.kind = "malformed"
  /\ calc.disk.state.kind \in {"malformed", "jsonNull"}

ModelTiers == {JsNull, "opus", "haiku"}

\* What an entry can hold in `modelTier` and in `model`.
TierFields == { [modelTier |-> t, model |-> u] : t \in ModelTiers, u \in ModelTiers }

\* More entries than the palette has colours.
LongRegistry == <<"a", "b", "c", "d", "e", "f", "g", "h">>

\* Registries of up to two entries, and one of eight. The keys of the object
\* shape are distinct and none is an array index, so that Object.entries
\* lists them as written.
RegistryInputs ==
  { RegistryFile(k, <<>>) : k \in {"absent", "malformed", "other"} }
    \cup { RegistryFileTiers(k, <<x>>, <<t>>) :
             k \in {"array", "object"}, x \in {"lead", "a"}, t \in TierFields }
    \cup { RegistryFileTiers(k, <<"a", x>>, <<t, NoTier>>) :
             k \in {"array", "object"}, x \in {"lead", "b"}, t \in TierFields }
    \cup { RegistryFileTiers("array", <<"a", "a">>, <<t, u>>) :
             t \in TierFields, u \in TierFields }
    \cup { RegistryFile(k, LongRegistry) : k \in {"array", "object"} }

ReadAgentsCall(registry) ==
  /\ calc.op = "none"
  /\ calc' = [op |-> "readAgents", registry |-> registry, out |-> readAgents(registry)]
  /\ UNCHANGED pvars

NextRegistry == \E registry \in RegistryInputs : ReadAgentsCall(registry)

SpecRegistry == Init /\ [][NextRegistry]_vars

\* C22: an array-shaped registry yields one agent per element in order, its
\* id from the element and its model tier from `modelTier`, sonnet when there
\* is none; an object-shaped registry yields one agent per key in order, its
\* id the key and its model tier from `model`; a registry of another shape
\* yields no agent and no error; the i-th agent has the i-th colour of the
\* palette, counted modulo the palette's length.
C22_RegistryNormalization ==
  calc.op = "readAgents" =>
    LET registry == calc.registry
        out == calc.out
        tierOf(i) == IF registry.kind = "array" THEN registry.tiers[i].modelTier
                     ELSE registry.tiers[i].model
    IN  /\ registry.kind \in {"array", "object"} =>
             /\ ~out.threw
             /\ Len(out.value) = Len(registry.ids)
             /\ \A i \in DOMAIN registry.ids :
                  /\ out.value[i].id = registry.ids[i]
                  /\ out.value[i].modelTier =
                       (IF tierOf(i) \in {"opus", "haiku"} THEN tierOf(i) ELSE "sonnet")
                  /\ out.value[i].color =
                       <<"blue", "red", "green", "yellow", "purple", "cyan">>[((i - 1) % 6) + 1]
        /\ registry.kind = "other" => (~out.threw /\ out.value = <<>>)

\* A registry of eight agents: the seventh has the first colour again.
C22_Witness ==
  /\ calc.op = "readAgents"
  /\ calc.registry.kind = "object"
  /\ ~calc.out.threw
  /\ Len(calc.out.value) = 8
  /\ calc.out.value[1].color = "blue"
  /\ calc.out.value[7].color = "blue"
  /\ calc.out.value[7].id = "g"

\* ------------------------------------------------------------ the singleton
\* getFileWatcher calls made in a run.
MaxGets == 5

\* The adapters a request can construct.
Adapters == {"claude-code", "takt", "mamh"}

\* The module of the watcher right after it is loaded: watcherInstance is
\* null (0), no FileWatcher has been constructed, no call has been made.
ModuleLoaded ==
  [ op |-> "getFileWatcher", watcherInstance |-> 0, instances |-> <<>>,
    returned |-> <<>>, adapters |-> <<>> ]

\* getFileWatcher that constructs a watcher on every call.
getFileWatcherPerCall(watcherInstance, constructed) == constructed + 1

\* getFileWatcher: watcherInstance after the call, with `constructed`
\* FileWatchers built so far (the next one is constructed + 1).
getFileWatcher(watcherInstance, constructed) ==
  IF watcherInstance = 0 THEN constructed + 1 ELSE watcherInstance

\* new FileWatcher(adapter)
NewFileWatcher(adapter) == [adapter |-> adapter, started |-> FALSE, reevalTimers |-> 0]

\* watcher.start() on one instance; the timers it has created are counted.
startInstance(w) ==
  IF w.started THEN w
  ELSE [w EXCEPT !.started = TRUE, !.reevalTimers = @ + 1]

\* GET /api/events up to `await watcher.start()`: the request constructs its
\* adapter, asks for the watcher and starts it.
GetFileWatcherCall(adapter) ==
  LET cur == IF calc.op = "none" THEN ModuleLoaded ELSE calc
      w == getFileWatcher(cur.watcherInstance, Len(cur.instances))
      built == IF w > Len(cur.instances)
                 THEN Append(cur.instances, NewFileWatcher(adapter))
                 ELSE cur.instances
  IN  /\ calc.op \in {"none", "getFileWatcher"}
      /\ Len(cur.returned) < MaxGets
      /\ calc' = [ op |-> "getFileWatcher", watcherInstance |-> w,
                   instances |-> [built EXCEPT ![w] = startInstance(@)],
                   returned |-> Append(cur.returned, w),
                   adapters |-> Append(cur.adapters, adapter) ]
      /\ UNCHANGED pvars

NextSingleton == \E adapter \in Adapters : GetFileWatcherCall(adapter)

SpecSingleton == Init /\ [][NextSingleton]_vars

\* C23: a process has at most one watcher: every call of getFileWatcher
\* returns the instance the first call constructed, with the adapter of the
\* first call, so that every request shares its one periodic timer.
C23_OneWatcherPerProcess ==
  calc.op = "getFileWatcher" =>
    /\ Len(calc.instances) = 1
    /\ \A k \in DOMAIN calc.returned : calc.returned[k] = calc.returned[1]
    /\ calc.instances[calc.returned[1]].adapter = calc.adapters[1]
    /\ calc.instances[1].reevalTimers = 1

\* A second request with another adapter got the watcher of the first.
C23_Witness ==
  /\ calc.op = "getFileWatcher"
  /\ Len(calc.returned) >= 2
  /\ calc.adapters[2] # calc.adapters[1]
  /\ calc.returned[2] = calc.returned[1]
  /\ calc.instances[calc.returned[2]].adapter = calc.adapters[1]

\* ------------------------------------------------------------ session discovery
\* A file of the subagents directory: its name without the extension, whether
\* the name ends in .jsonl, whether stat succeeds, its mtime, the agentId of
\* its first messages (or null) and what readLastAction finds in its tail.
SubagentFile(base, jsonl, statOk, mtime, agentId, tail) ==
  [ base |-> base, jsonl |-> jsonl, statOk |-> statOk, mtime |-> mtime,
    agentId |-> agentId, tail |-> tail ]

\* fileStats.sort((a, b) => a.mtime - b.mtime): oldest first.
sortOldestFirst(fileStats) ==
  LET n == Len(fileStats)
      Before(i, j) ==
        \/ fileStats[i].mtime < fileStats[j].mtime
        \/ (fileStats[i].mtime = fileStats[j].mtime /\ i < j)
      Place(rank) == [r \in 1..n |-> fileStats[CHOOSE i \in 1..n : rank[i] = r]] \o <<>>
  IN  Place([i \in 1..n |-> 1 + Cardinality({ j \in 1..n : Before(j, i) })] \o <<>>)

\* fileStats.sort((a, b) => b.mtime.getTime() - a.mtime.getTime()): a stable
\* sort, newest first.
sortNewestFirst(fileStats) ==
  LET n == Len(fileStats)
      Before(i, j) ==
        \/ fileStats[i].mtime > fileStats[j].mtime
        \/ (fileStats[i].mtime = fileStats[j].mtime /\ i < j)
      Place(rank) == [r \in 1..n |-> fileStats[CHOOSE i \in 1..n : rank[i] = r]] \o <<>>
  IN  Place([i \in 1..n |-> 1 + Cardinality({ j \in 1..n : Before(j, i) })] \o <<>>)

\* meta.agentId ?? file.replace('.jsonl', '')
identifierOf(file) == IF file.agentId # JsNull THEN file.agentId ELSE file.base

\* The loop over the sorted files: results and seenAgents after the files
\* from position k on have been processed.
RECURSIVE keepFirstPerAgent(_, _, _, _)
keepFirstPerAgent(sorted, k, results, seenAgents) ==
  IF k > Len(sorted) THEN results
  ELSE
    LET file == sorted[k]
        agentId == identifierOf(file)
        activity == deriveActivity(NowMs - file.mtime)
    IN  IF agentId \in seenAgents
          THEN keepFirstPerAgent(sorted, k + 1, results, seenAgents)
          ELSE keepFirstPerAgent(sorted, k + 1,
                 Append(results,
                   [ agentId |-> agentId,
                     sessionFile |-> [dir |-> "subagents", base |-> file.base, ext |-> ".jsonl"],
                     lastModified |-> file.mtime,
                     activity |-> activity,
                     lastAction |-> IF activity # "idle" THEN file.tail ELSE JsNull ]),
                 seenAgents \cup {agentId})

\* readSubagentSessions over the files readdir lists.
readSubagentSessions(files) ==
  keepFirstPerAgent(
    sortNewestFirst(SelectSeq(files, LAMBDA file : file.jsonl /\ file.statOk)),
    1, <<>>, {})

\* What the file at position k of the directory can be.
FilesAt(k) ==
  LET base == <<"f1", "f2", "f3">>[k] IN
    { SubagentFile(base, TRUE, TRUE, NowMs - e, id, tail) :
        e \in {1000, ACTIVE_THRESHOLD_MS + 1000, DONE_THRESHOLD_MS + 1000},
        id \in {JsNull, "x", "f1"}, tail \in {JsNull, "Edit"} }
      \cup { SubagentFile(base, FALSE, TRUE, NowMs - 1000, JsNull, "Edit"),
             SubagentFile(base, TRUE, FALSE, NowMs - 1000, JsNull, "Edit") }

Directories ==
  {<<>>} \cup { <<a>> : a \in FilesAt(1) }
    \cup { <<a, b>> : a \in FilesAt(1), b \in FilesAt(2) }
    \cup { <<a, b, c>> : a \in FilesAt(1), b \in FilesAt(2), c \in FilesAt(3) }

ReadSubagentSessionsCall(files) ==
  /\ calc.op = "none"
  /\ calc' = [op |-> "readSubagentSessions", files |-> files,
              out |-> readSubagentSessions(files)]
  /\ UNCHANGED pvars

NextDiscovery == \E files \in Directories : ReadSubagentSessionsCall(files)

SpecDiscovery == Init /\ [][NextDiscovery]_vars

\* The transcripts of the directory that carry the identifier id.
FilesOf(id) ==
  { k \in DOMAIN calc.files :
      /\ calc.files[k].jsonl /\ calc.files[k].statOk
      /\ (IF calc.files[k].agentId # JsNull THEN calc.files[k].agentId
          ELSE calc.files[k].base) = id }

\* C24: the sessions discovered have pairwise distinct identifiers; the
\* session kept for an identifier is a file with the greatest modification
\* time among the files that carry it; an idle session has no last action.
C24_NewestPerIdentifier ==
  calc.op = "readSubagentSessions" =>
    LET out == calc.out IN
      /\ \A i, j \in DOMAIN out : out[i].agentId = out[j].agentId => i = j
      /\ \A k \in DOMAIN calc.files :
           k \in FilesOf(identifierOf(calc.files[k])) =>
             \E i \in DOMAIN out : out[i].agentId = identifierOf(calc.files[k])
      /\ \A i \in DOMAIN out :
           /\ \E k \in FilesOf(out[i].agentId) :
                /\ calc.files[k].base = out[i].sessionFile.base
                /\ calc.files[k].mtime = out[i].lastModified
           /\ \A k \in FilesOf(out[i].agentId) : calc.files[k].mtime <= out[i].lastModified
           /\ out[i].activity = "idle" => out[i].lastAction = JsNull

\* Two transcripts carry x, the newer one is kept with its last action; an
\* idle transcript with a tool call in its tail has no last action.
C24_Witness ==
  /\ calc.op = "readSubagentSessions"
  /\ Len(calc.files) = 3
  /\ Len(calc.out) = 2
  /\ calc.files[2].agentId = "x" /\ calc.files[3].agentId = "x"
  /\ calc.files[2].mtime < calc.files[3].mtime
  /\ calc.files[1].tail = "Edit"
  /\ \E i \in DOMAIN calc.out :
       /\ calc.out[i].agentId = "x"
       /\ calc.out[i].sessionFile.base = "f3"
       /\ calc.out[i].lastAction = "Edit"
  /\ \E i \in DOMAIN calc.out :
       /\ calc.out[i].agentId = "f1"
       /\ calc.out[i].activity = "idle"
       /\ calc.out[i].lastAction = JsNull

\* ------------------------------------------------------------ the lead agent
\* What readMamhState resolves to: null, or the normalized state with its
\* phase and status.
MamhStates ==
  { NoMamhState }
    \cup { [kind |-> "state", phase |-> p, status |-> s, milestoneCompletions |-> <<>>] :
             p \in {"executing", "planning"},
             s \in {"executing", "planning", "milestone-complete", "completed"} }

\* The agents deriveAgentStatusesFromSession hands over, by their status.
StatusLists ==
  LET One(s) == [RegistryAgent("a", JsNull, 0) EXCEPT !.status = s]
      Statuses == {"working", "idle", "completed"}
  IN  {<<>>} \cup { <<One(s)>> : s \in Statuses }
        \cup { <<One(s), One(u)>> : s \in Statuses, u \in Statuses }

BuildLeadAgentCall(mamhState, subagents, main) ==
  /\ calc.op = "none"
  /\ calc' = [op |-> "buildLeadAgent", mamhState |-> mamhState, subagents |-> subagents,
              main |-> main,
              lead |-> buildLeadAgent(mamhState, subagents, SessionSnapshot(main, <<>>))]
  /\ UNCHANGED pvars

NextLead ==
  \E mamhState \in MamhStates, subagents \in StatusLists, main \in MainSessions :
    BuildLeadAgentCall(mamhState, subagents, main)

SpecLead == Init /\ [][NextLead]_vars

OrchestrationStatusIn(values) ==
  calc.mamhState.kind = "state" /\ calc.mamhState.status \in values

OrchestrationExecuting ==
  calc.mamhState.kind = "state"
    /\ (calc.mamhState.phase = "executing" \/ calc.mamhState.status = "executing")

AnySubordinateWorking ==
  \E i \in DOMAIN calc.subagents : calc.subagents[i].status = "working"

\* C25: with a main session the lead's status is that session's derived
\* activity; without one it is completed when the orchestration status is
\* milestone-complete or completed, otherwise working when the orchestration
\* phase or status is executing or a subordinate is working, otherwise idle.
C25_LeadStatus ==
  calc.op = "buildLeadAgent" =>
    IF calc.main.present
      THEN calc.lead.status = deriveActivity(NowMs - calc.main.lastModified)
      ELSE
        /\ OrchestrationStatusIn({"milestone-complete", "completed"})
             => calc.lead.status = "completed"
        /\ (~OrchestrationStatusIn({"milestone-complete", "completed"})
              /\ (OrchestrationExecuting \/ AnySubordinateWorking))
             => calc.lead.status = "working"
        /\ (~OrchestrationStatusIn({"milestone-complete", "completed"})
              /\ ~OrchestrationExecuting /\ ~AnySubordinateWorking)
             => calc.lead.status = "idle"

\* No main session, the orchestration completed while its phase still says
\* executing and a subordinate works: the lead is completed.
C25_Witness ==
  /\ calc.op = "buildLeadAgent"
  /\ ~calc.main.present
  /\ calc.mamhState.kind = "state"
  /\ calc.mamhState.status = "completed"
  /\ calc.mamhState.phase = "executing"
  /\ \E i \in DOMAIN calc.subagents : calc.subagents[i].status = "working"
  /\ calc.lead.status = "completed"

\* ------------------------------------------------------------ milestone completions
\* The entries of a milestoneCompletions map with the given keys.
CompletionsOf(keys) ==
  [k \in DOMAIN keys |-> [milestone |-> keys[k], completedAt |-> toISOString(NowMs - 1000)]]

CompletionKeys ==
  { s \in SeqsUpTo2({"M1", "M2", "T1"}) : Len(s) < 2 \/ s[1] # s[2] }

MilestoneTickets ==
  { Ticket(id, "a", s, ms) :
      id \in {"T1", "T10"}, s \in {"in-progress", "completed"}, ms \in {"M1", "M10", "M2"} }

\* Roots that differ in the shape of the state file, in the keys of its
\* milestoneCompletions and in the tickets.
DisksMilestones ==
  { Disk(TRUE, RegistryFile("array", <<"a">>), StateFile(kind, "executing", "executing", CompletionsOf(keys)),
         tickets, MainSession(0), <<>>, <<>>, NoDecisions) :
      kind \in {"flat", "rich", "other"},
      keys \in CompletionKeys,
      tickets \in SeqsUpTo2(MilestoneTickets) }

NextMilestones == \E disk \in DisksMilestones : MamhReadStateCall(disk)

SpecMilestones == Init /\ [][NextMilestones]_vars

\* key is a prefix of the ticket's id or occurs in its milestone name.
KeyMatches(ticket, key) ==
  \/ \E n \in 0..Len(Chars(ticket.id)) : SubSeq(Chars(ticket.id), 1, n) = Chars(key)
  \/ \E a \in 1..(Len(Chars(ticket.milestone)) + 1), b \in 0..Len(Chars(ticket.milestone)) :
       SubSeq(Chars(ticket.milestone), a, b) = Chars(key)

\* C26: with a state file of the flat or of the rich shape, the tickets of
\* the snapshot are those on disk, in their order, where every ticket whose
\* id or milestone matches a key of milestoneCompletions has status
\* completed and nothing else differs from the ticket on disk.
C26_CompletionsOverrideOnlyStatus ==
  (calc.op = "MamhAdapter.readState" /\ calc.disk.state.kind \in {"flat", "rich"}) =>
    /\ Len(calc.out.tickets) = Len(calc.disk.tickets)
    /\ \A i \in DOMAIN calc.disk.tickets :
         LET ticket == calc.disk.tickets[i]
             matched == \E k \in DOMAIN calc.disk.state.completions :
                          KeyMatches(ticket, calc.disk.state.completions[k].milestone)
         IN  /\ matched => calc.out.tickets[i].status = "completed"
             /\ ~matched => calc.out.tickets[i] = ticket
             /\ calc.out.tickets[i].id = ticket.id
             /\ calc.out.tickets[i].agentId = ticket.agentId
             /\ calc.out.tickets[i].milestone = ticket.milestone

\* A rich state file completes M1: the ticket T1 of milestone M10, in
\* progress on disk, comes out completed, and the ticket T10 of milestone M2
\* comes out as it is on disk.
C26_Witness ==
  /\ calc.op = "MamhAdapter.readState"
  /\ calc.disk.state.kind = "rich"
  /\ Len(calc.disk.state.completions) = 1
  /\ calc.disk.state.completions[1].milestone = "M1"
  /\ Len(calc.disk.tickets) = 2
  /\ calc.disk.tickets[1] = Ticket("T1", "a", "in-progress", "M10")
  /\ calc.disk.tickets[2] = Ticket("T10", "a", "in-progress", "M2")
  /\ calc.out.tickets[1] = Ticket("T1", "a", "completed", "M10")
  /\ calc.out.tickets[2] = Ticket("T10", "a", "in-progress", "M2")

\* ------------------------------------------------------------ the last published snapshot
\* The connections whose listener is registered and whose stream takes data.
Receiving == { s \in listeners : send(s) }

\* C27: lastState is null or the snapshot sent last to every registered
\* subscriber, so that a periodic re-evaluation that publishes nothing
\* leaves no registered subscriber with statuses other than those it read.
C27_LastStateIsLastPublished ==
  /\ lastState = Null \/ \A s \in Receiving : recvLast[s] = lastState
  /\ (lastReeval # NoReeval /\ ~lastReeval.pub) =>
       \A s \in Receiving :
         ~hasStatusChanged(recvLast[s], [agents |-> lastReeval.agents, other |-> 0])

\* ------------------------------------------------------------ overlapping assemblies
\* readState calls of the timers in flight at once where they overlap.
MaxOverlap == 2

\* A file that only grows (a ticket output, the decisions log) is appended
\* to: `other` counts what the assembled state holds of it.
AppendWrite ==
  /\ writes < MaxWrites
  /\ fs' = [fs EXCEPT !.other = @ + 1]
  /\ writes' = writes + 1
  /\ lastReeval' = NoReeval
  /\ UNCHANGED <<wvars, lastState, reads, listeners, unhandled, svars, hvars, gvars,
                 hbTicks, noopStart, exited, calc>>

\* No readState of reevaluate is in flight: a read is short against the
\* period of the timer.
NoPeriodicRead == \A r \in BagToSet(reads) : r.kind # "periodic"

\* One connection starts the watcher; files grow, time passes, and a
\* readState of the debounce callback overlaps one of either timer; the
\* reads resolve in any order.
NextOverlap ==
  \/ AppendWrite
  \/ TimePasses
  \/ Notify
  \/ \E h \in liveTimeouts : DebounceFireWithin(h, MaxOverlap)
  \/ \E h \in liveIntervals : NoPeriodicRead /\ PeriodicTickWithin(h, MaxOverlap)
  \/ \E r \in BagToSet(reads) : DebounceDone(r)
  \/ \E r \in BagToSet(reads) : ReevaluateDone(r)
  \/ \E s \in FirstSub : Connect(s)
  \/ \E s \in FirstSub : InitialDone(s)

SpecOverlap == Init /\ [][NextOverlap]_vars

\* How many changes the file system had gone through when the snapshot was
\* read: under NextOverlap the file only grows and the status of the main
\* session only ages.
ReadAt(snap) ==
  snap.other + (CASE snap.agents[1].status = "working" -> 0
                  [] snap.agents[1].status = "completed" -> 1
                  [] snap.agents[1].status = "idle" -> 2)

\* C28: a snapshot read from older file-system state is never emitted
\* after, and never replaces lastState of, a snapshot read from newer state.
C28_PublishedInReadOrder ==
  [][pubCount' # pubCount =>
       /\ lastPub # Null => ReadAt(lastPub') >= ReadAt(lastPub)
       /\ lastState # Null => ReadAt(lastState') >= ReadAt(lastState)]_vars

\* ------------------------------------------------------------ leaving subscribers
\* The broadcast route where every getInitialState that is awaited settles.
SpecCleanup ==
  /\ Init
  /\ [][NextBroadcast]_vars
  /\ \A s \in Subs : WF_vars(InitialDone(s) \/ InitialFail(s))

\* The connections whose stream is open: start has run to its end, the
\* consumer has not cancelled and no write has failed.
OpenSubscriptions == { s \in Subs : pc[s] = "open" /\ ~cancelled[s] /\ ~closed[s] }

\* C29: once the stream of a subscription is cancelled or a write to it has
\* failed, its 'update' listener is eventually off the watcher and its
\* heartbeat timer cleared, also when the cancel comes while start is still
\* awaiting; and the watcher never has more 'update' listeners than there
\* are open subscriptions.
C29_CleanupAfterCancel ==
  /\ \A s \in Subs :
       (cancelled[s] \/ closed[s]) ~> [](s \notin listeners /\ ~hbTimer[s])
  /\ [](Cardinality(listeners) <= Cardinality(OpenSubscriptions))

\* ------------------------------------------------------------ the gap before registration
\* The listener of connection s has just been registered: updates were
\* emitted before it was, none since, and the connection holds the one
\* snapshot start has sent. The connection is the one whose start() started
\* the watcher, so every update was emitted after its initial read began.
RegisteredAfterUpdates(s) ==
  /\ s \in listeners
  /\ regAt[s] > 0
  /\ pubCount = regAt[s]
  /\ recvN[s] = 1

\* C30: when updates were emitted between the start of a subscriber's
\* initial readState and the registration of its listener, the snapshot the
\* subscriber holds once registered is at least as recent as the latest of
\* those updates.
C30_NoUpdateLostBeforeRegistration ==
  \A s \in FirstSub :
    RegisteredAfterUpdates(s) => ReadAt(recvLast[s]) >= ReadAt(lastPub)

====
